---- MODULE Spec2Model ----
\* PDF World upload server (server.js, src/services/sessionStore.js):
\* a resumable multipart-upload session coordinator in front of an object
\* store (S3) and a key-value session store (Redis).
\*
\* Every HTTP handler is an async function: it runs atomically between two
\* awaits, and other handlers may run at each await.  A handler is therefore
\* modelled as a sequence of atomic steps, one per await that touches shared
\* state: the read of the session record, the object-store call, the write of
\* the session record.
\*
\* The object store is S3: a multipart upload is open from its creation until
\* it is completed or aborted, a call on an upload that is no longer open
\* fails (NoSuchUpload), and any call may fail (the handlers catch the throw
\* and answer 500).  The session store call of saveSession may fail likewise.
\* One session (one uploadId) is followed.  Time is in milliseconds; it only
\* passes in the specification SpecTime.
EXTENDS Integers, Sequences, FiniteSets, TLC

\* ---------------------------------------------------------------- bounds
\* Requests started in one behaviour.
MaxRequests == 4
\* Length of the parts list a client sends with commit.
MaxPartsLen == 2

\* ------------------------------------------------------- program constants
DEFAULT == 5 * 1024 * 1024
MIN == 256 * 1024
MAX == 50 * 1024 * 1024
LARGE_FILE == 500 * 1024 * 1024
LARGE_BASE == 16 * 1024 * 1024

\* ---------------------------------------------------------------- values
\* JavaScript values of a JSON request body, tagged with their typeof.
Num(n) == [type |-> "number", val |-> n]
Undefined == [type |-> "undefined", val |-> 0]
Str(n) == [type |-> "string", val |-> n]

\* JavaScript truthiness of a number or undefined value.
Truthy(v) == v.type = "number" /\ v.val # 0

Min2(a, b) == IF a < b THEN a ELSE b
Max2(a, b) == IF a > b THEN a ELSE b

\* Math.ceil(a / b) for integers a and b > 0 (Math.ceil of a negative
\* quotient rounds towards zero; -0 is stored by JSON.stringify as 0).
MathCeilDiv(a, b) == -((-a) \div b)

\* ------------------------------------------------------ chunk size policy
\* server.js 45-50: the chunk size of a new session.
ChunkSizeNoClamp(fileSize, desiredChunkSize) ==
    LET c0 == IF Truthy(desiredChunkSize) THEN desiredChunkSize.val ELSE DEFAULT
    IN  IF fileSize >= LARGE_FILE THEN Min2(MAX, LARGE_BASE) ELSE c0

ChunkSize(fileSize, desiredChunkSize) ==
    LET c0 == IF Truthy(desiredChunkSize) THEN desiredChunkSize.val ELSE DEFAULT
        c1 == IF fileSize >= LARGE_FILE THEN Min2(MAX, LARGE_BASE) ELSE c0
    IN  Max2(MIN, Min2(MAX, c1))

\* server.js 51
TotalChunks(fileSize, chunkSize) == MathCeilDiv(fileSize, chunkSize)

\* ------------------------------------------------------------- checksums
\* crypto.createHash("sha256").update(buf).digest("hex") on the buffers the
\* model uploads (the digests are the real ones).
Buffers == {"hello", "world"}

Sha256Hex(buf) ==
    CASE buf = "hello" -> "2cf24dba5fb0a30e26e83b2ac5b9e29e1b161e5c1fa7425e73043362938b9824"
      [] buf = "world" -> "486ea46224d1bb4fb680f34f7c9ad96a8f24ec88be73ea8e5a6c65260e9cb8a7"
      [] buf = "" -> "e3b0c44298fc1c149afbf4c8996fb92427ae41e4649b934ca495991b7852b855"

\* The ETag the object store returns for a part: the MD5 of its content.
ETagOf(buf) ==
    CASE buf = "hello" -> "5d41402abc4b2a76b9719d911017c592"
      [] buf = "world" -> "7d793037a0760186574b0282f2f435e7"
      [] buf = "" -> "d41d8cd98f00b204e9800998ecf8427e"

\* chunkBuffer.length
BufferLength(buf) ==
    CASE buf = "hello" -> 5
      [] buf = "world" -> 5
      [] buf = "" -> 0

\* ---------------------------------------------------------------- inputs
\* Slots of the handler invocations in flight: two may overlap.
Reqs == {1, 2}
FileNames == {"", "a.pdf"}
Strategies == {Undefined, Str("proxy")}
\* fileSize values of the protocol specification: a non-number, and a size of
\* two chunks.
FileSizes == {Str("12"), Num(DEFAULT + 1)}
DesiredSizes == {Undefined}
\* fileSize and desiredChunkSize values of the chunk-plan specification.
PlanFileSizes ==
    {Str("12"), Num(-6 * 1024 * 1024), Num(-1), Num(0), Num(1), Num(11), Num(MIN), Num(MIN + 1),
     Num(DEFAULT), Num(DEFAULT + 1), Num(MAX + 1), Num(LARGE_FILE - 1),
     Num(LARGE_FILE), Num(600 * 1024 * 1024), Num(1024 * 1024 * 1024)}
PlanDesiredSizes ==
    {Undefined, Num(-4), Num(0), Num(4), Num(MIN - 1), Num(MIN), Num(1024 * 1024),
     Num(DEFAULT), Num(LARGE_BASE), Num(MAX), Num(MAX + 1)}
\* :partIndex path parameters.
PartIndexParams == {"abc", "-1", "0", "0.5", "1", "2"}
\* Uploaded files of a part request: absent, or a buffer.
NoFile == "<no file>"
ChunkInputs == {NoFile} \cup Buffers
\* Part requests: index 0 with every file, the other indices with one buffer.
PartRequests == ({"0"} \X ChunkInputs) \cup ((PartIndexParams \ {"0"}) \X {"hello"})
\* Entries of a client's parts list: a checksum of each buffer for index 0,
\* one checksum for index 1.
ClientPart ==
    {[index |-> 0, checksum |-> Sha256Hex(b)] : b \in Buffers}
        \cup {[index |-> 1, checksum |-> Sha256Hex("hello")]}
RECURSIVE SeqsUpTo(_, _)
SeqsUpTo(S, n) ==
    IF n = 0 THEN {<<>>}
    ELSE LET shorter == SeqsUpTo(S, n - 1)
         IN  shorter \cup {Append(q, x) : q \in {p \in shorter : Len(p) = n - 1}, x \in S}
\* Bodies of a commit request: no parts field, or a parts array.
NoParts == <<[index |-> -1, checksum |-> "<not an array>"]>>
CommitBodies == {NoParts} \cup SeqsUpTo(ClientPart, MaxPartsLen)

\* ----------------------------------------------------------------- state
VARIABLES
    store,        \* Redis: the record under upload:session:<uploadId>, or NoSession
    s3,           \* the object store: state of the session's multipart upload
    req,          \* the handler invocations in flight: position, inputs, local session copy
    last,         \* the handler invocation that answered last, with its response
    nreq,         \* requests started so far
    abortDone,    \* an abort request has answered "aborted"
    committedWith, \* the parts list of the commit request that last stored "committed"
    now,          \* Date.now()
    expiry,       \* Redis: the time at which the session key expires
    direct        \* the parts a client has PUT to the object store through presigned URLs

vars == <<store, s3, req, last, nreq, abortDone, committedWith, now, expiry, direct>>

NoSession == [status |-> "<null>"]
TheUploadId == "uuid-1"
TheKey == "uploads/uuid-1/a.pdf"
TheHandle == [UploadId |-> "mp-1", Key |-> TheKey]

NoInput ==
    [fileName |-> "", fileSize |-> Undefined, desiredChunkSize |-> Undefined,
     storageStrategy |-> Undefined, partIndex |-> "", chunk |-> NoFile, parts |-> <<>>]
NoResp == [code |-> 0, error |-> "none", body |-> <<>>]
\* A free slot, and the fields of a handler invocation: op and pc, the request
\* (input), the handler's copy of the session (s), the object-store calls it
\* has sent (calls, and sent: the part list of a completeMultipart call),
\* whether it has written the session store (wrote), whether it arrived after
\* an abort request was answered (afterAbort), and the part indices whose
\* upload was answered with success while this upload was in flight (peerOk),
\* the time of its session lookup (at), the record the lookup returned (read)
\* and the EX argument saveSession has computed (ttl, in seconds).
Idle ==
    [op |-> "none", pc |-> "idle", input |-> NoInput, s |-> NoSession, resp |-> NoResp,
     calls |-> {}, sent |-> <<>>, wrote |-> FALSE, afterAbort |-> FALSE, peerOk |-> {},
     at |-> 0, ttl |-> 0, read |-> NoSession]

Ok(body) == [code |-> 200, error |-> "none", body |-> body]
Err(code, error) == [code |-> code, error |-> error, body |-> <<>>]
ServerError == Err(500, "server_error")

Init ==
    /\ store = NoSession
    /\ s3 = [mp |-> "none"]
    /\ req = [r \in Reqs |-> Idle]
    /\ last = Idle
    /\ nreq = 0
    /\ abortDone = FALSE
    /\ committedWith = <<>>
    /\ now = 0
    /\ expiry = 0
    /\ direct = <<>>

\* A handler invocation starts in the first free slot.
CanStart(r) ==
    /\ req[r].pc = "idle"
    /\ \A o \in Reqs : o < r => req[o].pc # "idle"
    /\ nreq < MaxRequests

Begin(r, op, input, s) ==
    [Idle EXCEPT !.op = op, !.pc = "start", !.input = input, !.s = s,
                 !.afterAbort = abortDone, !.at = now, !.read = s]

\* Number(req.params.partIndex): NaN, or a number given by its floor (val)
\* and by whether it has a fractional part (frac).  Against an integer n,
\* x < n and x >= n are decided by the floor of x.
NaN == [nan |-> TRUE, val |-> 0, frac |-> FALSE]
Number(param) ==
    CASE param = "-1" -> [nan |-> FALSE, val |-> -1, frac |-> FALSE]
      [] param = "0" -> [nan |-> FALSE, val |-> 0, frac |-> FALSE]
      [] param = "0.5" -> [nan |-> FALSE, val |-> 0, frac |-> TRUE]
      [] param = "1" -> [nan |-> FALSE, val |-> 1, frac |-> FALSE]
      [] param = "2" -> [nan |-> FALSE, val |-> 2, frac |-> FALSE]
      [] OTHER -> NaN

\* An upload in flight learns that another upload was answered with success.
Notify(p, q, resp) ==
    IF p.op = "upload" /\ q.op = "upload" /\ resp.code = 200
    THEN [p EXCEPT !.peerOk = @ \cup {Number(q.input.partIndex).val}]
    ELSE p

\* The handler invocation q of slot r answers: the response is sent and the
\* slot is free again.
Reply(r, q, resp) ==
    /\ req' = [o \in Reqs |-> IF o = r THEN Idle ELSE Notify(req[o], q, resp)]
    /\ last' = [q EXCEPT !.pc = "done", !.resp = resp]

\* The handler invocation of slot r goes on as q, up to its next await.
Continue(r, q) ==
    /\ req' = [req EXCEPT ![r] = q]
    /\ UNCHANGED last

\* getSession: the record parsed from the key of uploadId, or null when the
\* key is absent or has expired.  Every field of a session record is a JSON
\* value (strings, integers, objects), which JSON.stringify and JSON.parse
\* give back as it was.
getSession(uploadId) ==
    IF uploadId = TheUploadId /\ store # NoSession /\ now < expiry THEN store ELSE NoSession

\* sessionStore.js 10: the EX argument of saveSession, in seconds.
SessionTtl(session) == Max2(60, (session.expiresAt - now) \div 1000)

\* server.js 69: the lifetime of a session, in milliseconds.
SESSION_LIFETIME == 60 * 60 * 1000

\* ------------------------------------------------------- POST /sessions
\* server.js 43
CreateInvalid(fileName, fileSize) == fileName = "" \/ fileSize.type # "number"

\* server.js 42-59: validation, chunk plan, CreateMultipartUpload is sent.
CreateStart(r, fileName, fileSize, desiredChunkSize, storageStrategy) ==
    /\ CanStart(r)
    /\ store = NoSession
    /\ \A o \in Reqs : req[o].op # "create"
    /\ s3.mp = "none"
    /\ LET input == [NoInput EXCEPT !.fileName = fileName, !.fileSize = fileSize,
                        !.desiredChunkSize = desiredChunkSize,
                        !.storageStrategy = storageStrategy]
           q == Begin(r, "create", input, NoSession)
       IN  IF CreateInvalid(fileName, fileSize)
           THEN Reply(r, q, Err(400, "fileName and numeric fileSize required"))
           ELSE LET chunkSize == ChunkSize(fileSize.val, desiredChunkSize)
                    session ==
                        [uploadId |-> TheUploadId,
                         fileName |-> fileName,
                         size |-> fileSize.val,
                         chunkSize |-> chunkSize,
                         totalChunks |-> TotalChunks(fileSize.val, chunkSize),
                         storageStrategy |->
                             IF storageStrategy = Undefined THEN "presigned"
                             ELSE storageStrategy.val,
                         expiresAt |-> 0,
                         status |-> "pending",
                         s3Multipart |-> TheHandle,
                         uploadedParts |-> <<>>,
                         fileId |-> "<undefined>"]
                IN  Continue(r, [q EXCEPT !.pc = "s3", !.s = session,
                                          !.calls = {"createMultipart"}])
    /\ nreq' = nreq + 1
    /\ UNCHANGED <<store, s3, abortDone, committedWith, expiry, now, direct>>

\* server.js 55-59, 77-80: the object store answers, or the call throws.
CreateUpstream(r) ==
    /\ req[r].op = "create" /\ req[r].pc = "s3"
    /\ \/ /\ s3' = [s3 EXCEPT !.mp = "open"]
          /\ LET session == [req[r].s EXCEPT !.expiresAt = now + SESSION_LIFETIME]
             IN  Continue(r, [req[r] EXCEPT !.pc = "save", !.s = session,
                                            !.ttl = SessionTtl(session)])
       \/ /\ Reply(r, req[r], ServerError)
          /\ UNCHANGED s3
    /\ UNCHANGED <<store, nreq, abortDone, committedWith, expiry, now, direct>>

\* server.js 75-76: saveSession, then the chunk plan is returned.
CreateSave(r) ==
    /\ req[r].op = "create" /\ req[r].pc = "save"
    /\ \/ /\ store' = req[r].s
          /\ expiry' = now + req[r].ttl * 1000
          /\ Reply(r, [req[r] EXCEPT !.wrote = TRUE],
                   Ok([uploadId |-> req[r].s.uploadId, chunkSize |-> req[r].s.chunkSize,
                       totalChunks |-> req[r].s.totalChunks,
                       storageStrategy |-> req[r].s.storageStrategy]))
       \/ /\ Reply(r, req[r], ServerError)
          /\ UNCHANGED <<store, expiry>>
    /\ UNCHANGED <<s3, nreq, abortDone, committedWith, now, direct>>

\* ------------------------------------------------------------ part index
\* server.js 104, 126: isNaN(partIndex) || partIndex < 0 || partIndex >= s.totalChunks
InvalidPartIndexNoLower(partIndex, s) ==
    partIndex.nan \/ partIndex.val >= s.totalChunks

InvalidPartIndexNoUpper(partIndex, s) ==
    partIndex.nan \/ partIndex.val < 0

InvalidPartIndexOffByOne(partIndex, s) ==
    partIndex.nan \/ partIndex.val < 0 \/ partIndex.val >= s.totalChunks - 1

InvalidPartIndex(partIndex, s) ==
    partIndex.nan \/ partIndex.val < 0 \/ partIndex.val >= s.totalChunks

\* --------------------------------- POST /sessions/:id/presign/:partIndex
\* server.js 97-118.  getSignedUrl signs locally for part number partIndex+1
\* and touches neither store.
PresignPart(r, param) ==
    /\ CanStart(r)
    /\ LET s == getSession(TheUploadId)
           q == Begin(r, "presign", [NoInput EXCEPT !.partIndex = param], s)
           partIndex == Number(param)
       IN  \/ /\ s = NoSession
              /\ Reply(r, q, Err(404, "not_found"))
           \/ /\ s # NoSession
              /\ s.storageStrategy # "presigned"
              /\ Reply(r, q, Err(400, "not_presigned_strategy"))
           \/ /\ s # NoSession
              /\ s.storageStrategy = "presigned"
              /\ InvalidPartIndex(partIndex, s)
              /\ Reply(r, q, Err(400, "invalid_part_index"))
           \/ /\ s # NoSession
              /\ s.storageStrategy = "presigned"
              /\ ~InvalidPartIndex(partIndex, s)
              /\ \/ Reply(r, [q EXCEPT !.calls = {"presign"}],
                          Ok([url |-> s.s3Multipart, PartNumber |-> partIndex.val + 1,
                              frac |-> partIndex.frac]))
                 \/ Reply(r, [q EXCEPT !.calls = {"presign"}], ServerError)
    /\ nreq' = nreq + 1
    /\ UNCHANGED <<store, s3, abortDone, committedWith, expiry, now, direct>>

\* --------------------------------- PATCH /sessions/:id/parts/:partIndex
\* server.js 122-139: lookup, validation, checksum, UploadPart is sent.
UploadStart(r, param, chunk) ==
    /\ CanStart(r)
    /\ LET s == getSession(TheUploadId)
           q == Begin(r, "upload", [NoInput EXCEPT !.partIndex = param, !.chunk = chunk], s)
           partIndex == Number(param)
       IN  \/ /\ s = NoSession
              /\ Reply(r, q, Err(404, "not_found"))
           \/ /\ s # NoSession
              /\ InvalidPartIndex(partIndex, s)
              /\ Reply(r, q, Err(400, "invalid_part_index"))
           \/ /\ s # NoSession
              /\ ~InvalidPartIndex(partIndex, s)
              /\ chunk = NoFile
              /\ Reply(r, q, Err(400, "no_chunk"))
           \/ /\ s # NoSession
              /\ ~InvalidPartIndex(partIndex, s)
              /\ chunk # NoFile
              /\ Continue(r, [q EXCEPT !.pc = "s3", !.calls = {"uploadPart"}])
    /\ nreq' = nreq + 1
    /\ UNCHANGED <<store, s3, abortDone, committedWith, expiry, now, direct>>

\* server.js 141-142: the part is merged into the handler's copy of the session.
MergePartAddSize(s, partIndex, chunk) ==
    [s EXCEPT !.uploadedParts =
          (partIndex :> [etag |-> ETagOf(chunk), checksum |-> Sha256Hex(chunk),
                         size |-> BufferLength(chunk)
                                     + (IF partIndex \in DOMAIN @ THEN @[partIndex].size
                                        ELSE 0)]) @@ @,
              !.status = "uploading"]

MergePart(s, partIndex, chunk) ==
    [s EXCEPT !.uploadedParts =
          (partIndex :> [etag |-> ETagOf(chunk), checksum |-> Sha256Hex(chunk),
                         size |-> BufferLength(chunk)]) @@ @,
              !.status = "uploading"]

\* server.js 133-142, 146-149: the object store takes the part while the
\* multipart upload is open and the part number is an integer, or the call
\* throws.
UploadUpstream(r) ==
    /\ req[r].op = "upload" /\ req[r].pc = "s3"
    /\ \/ /\ s3.mp = "open"
          /\ ~Number(req[r].input.partIndex).frac
          /\ Continue(r, [req[r] EXCEPT
                 !.pc = "save",
                 !.s = MergePart(@, Number(req[r].input.partIndex).val,
                                 req[r].input.chunk),
                 !.ttl = SessionTtl(req[r].s)])
       \/ /\ Reply(r, req[r], ServerError)
    /\ UNCHANGED <<store, s3, nreq, abortDone, committedWith, expiry, now, direct>>

\* server.js 143-145: the whole copy is written back.
UploadSave(r) ==
    /\ req[r].op = "upload" /\ req[r].pc = "save"
    /\ LET partIndex == Number(req[r].input.partIndex).val
       IN  \/ /\ store' = req[r].s
              /\ expiry' = now + req[r].ttl * 1000
              /\ Reply(r, [req[r] EXCEPT !.wrote = TRUE],
                       Ok([index |-> partIndex,
                           etag |-> req[r].s.uploadedParts[partIndex].etag,
                           checksum |-> req[r].s.uploadedParts[partIndex].checksum]))
           \/ /\ Reply(r, req[r], ServerError)
              /\ UNCHANGED <<store, expiry>>
    /\ UNCHANGED <<s3, nreq, abortDone, committedWith, now, direct>>

\* ------------------------------------------- POST /sessions/:id/commit
\* clientParts.find(x => x.index === i): the first entry for index i, or none.
FindIndexLast(clientParts, i) ==
    LET hits == {k \in 1..Len(clientParts) : clientParts[k].index = i}
    IN  IF hits = {} THEN 0 ELSE CHOOSE k \in hits : \A j \in hits : k >= j

FindIndex(clientParts, i) ==
    LET hits == {k \in 1..Len(clientParts) : clientParts[k].index = i}
    IN  IF hits = {} THEN 0 ELSE CHOOSE k \in hits : \A j \in hits : k <= j

HasRecord(s, i) == i \in DOMAIN s.uploadedParts

\* server.js 160-172: the loop over the part indices, from index i on.
RECURSIVE CommitLoopNoMismatch(_, _, _, _)
CommitLoopNoMismatch(s, clientParts, i, acc) ==
    IF i >= s.totalChunks THEN acc
    ELSE LET k == FindIndex(clientParts, i)
         IN  IF k = 0 \/ ~HasRecord(s, i)
             THEN CommitLoopNoMismatch(s, clientParts, i + 1,
                      [acc EXCEPT !.missing = Append(@, i)])
             ELSE CommitLoopNoMismatch(s, clientParts, i + 1,
                      [acc EXCEPT !.partsForComplete =
                          Append(@, [PartNumber |-> i + 1,
                                     ETag |-> s.uploadedParts[i].etag])])

RECURSIVE CommitLoopSkipMissing(_, _, _, _)
CommitLoopSkipMissing(s, clientParts, i, acc) ==
    IF i >= s.totalChunks THEN acc
    ELSE LET k == FindIndex(clientParts, i)
         IN  IF k = 0 \/ ~HasRecord(s, i)
             THEN CommitLoopSkipMissing(s, clientParts, i + 1, acc)
             ELSE CommitLoopSkipMissing(s, clientParts, i + 1,
                      [acc EXCEPT
                          !.mismatched =
                              IF clientParts[k].checksum # s.uploadedParts[i].checksum
                              THEN Append(@, i) ELSE @,
                          !.partsForComplete =
                              Append(@, [PartNumber |-> i + 1,
                                         ETag |-> s.uploadedParts[i].etag])])

RECURSIVE CommitLoopZeroBased(_, _, _, _)
CommitLoopZeroBased(s, clientParts, i, acc) ==
    IF i >= s.totalChunks THEN acc
    ELSE LET k == FindIndex(clientParts, i)
         IN  IF k = 0 \/ ~HasRecord(s, i)
             THEN CommitLoopZeroBased(s, clientParts, i + 1,
                      [acc EXCEPT !.missing = Append(@, i)])
             ELSE CommitLoopZeroBased(s, clientParts, i + 1,
                      [acc EXCEPT
                          !.mismatched =
                              IF clientParts[k].checksum # s.uploadedParts[i].checksum
                              THEN Append(@, i) ELSE @,
                          !.partsForComplete =
                              Append(@, [PartNumber |-> i,
                                         ETag |-> s.uploadedParts[i].etag])])

RECURSIVE CommitLoop(_, _, _, _)
CommitLoop(s, clientParts, i, acc) ==
    IF i >= s.totalChunks THEN acc
    ELSE LET k == FindIndex(clientParts, i)
         IN  IF k = 0 \/ ~HasRecord(s, i)
             THEN CommitLoop(s, clientParts, i + 1,
                      [acc EXCEPT !.missing = Append(@, i)])
             ELSE CommitLoop(s, clientParts, i + 1,
                      [acc EXCEPT
                          !.mismatched =
                              IF clientParts[k].checksum # s.uploadedParts[i].checksum
                              THEN Append(@, i) ELSE @,
                          !.partsForComplete =
                              Append(@, [PartNumber |-> i + 1,
                                         ETag |-> s.uploadedParts[i].etag])])

CheckParts(s, clientParts) ==
    CommitLoop(s, clientParts, 0,
               [missing |-> <<>>, mismatched |-> <<>>, partsForComplete |-> <<>>])

\* server.js 154-181: lookup, cross-check, CompleteMultipartUpload is sent.
CommitStart(r, body) ==
    /\ CanStart(r)
    /\ LET s == getSession(TheUploadId)
           q == Begin(r, "commit", [NoInput EXCEPT !.parts = body], s)
       IN  \/ /\ s = NoSession
              /\ Reply(r, q, Err(404, "not_found"))
           \/ /\ s # NoSession
              /\ body = NoParts
              /\ Reply(r, q, Err(400, "parts_required"))
           \/ /\ s # NoSession
              /\ body # NoParts
              /\ LET checked == CheckParts(s, body)
                 IN  IF Len(checked.missing) # 0 \/ Len(checked.mismatched) # 0
                     THEN Reply(r, q, [code |-> 400, error |-> "parts_invalid",
                                       body |-> [missing |-> checked.missing,
                                                 mismatched |-> checked.mismatched]])
                     ELSE Continue(r, [q EXCEPT !.pc = "s3",
                                                !.calls = {"completeMultipart"},
                                                !.sent = checked.partsForComplete])
    /\ nreq' = nreq + 1
    /\ UNCHANGED <<store, s3, abortDone, committedWith, expiry, now, direct>>

\* server.js 183-184
MarkCommitted(s) == [s EXCEPT !.status = "committed", !.fileId = s.s3Multipart.Key]

\* server.js 176-184, 188-191: the object store assembles the object while
\* the multipart upload is open, or the call throws.
CommitUpstreamSwallow(r) ==
    /\ req[r].op = "commit" /\ req[r].pc = "s3"
    /\ \/ /\ s3.mp = "open"
          /\ s3' = [s3 EXCEPT !.mp = "completed"]
          /\ Continue(r, [req[r] EXCEPT !.pc = "save", !.s = MarkCommitted(@),
                                         !.ttl = SessionTtl(req[r].s)])
       \/ /\ Continue(r, [req[r] EXCEPT !.pc = "save", !.s = MarkCommitted(@),
                                         !.ttl = SessionTtl(req[r].s)])
          /\ UNCHANGED s3
    /\ UNCHANGED <<store, nreq, abortDone, committedWith, expiry, now, direct>>

CommitUpstream(r) ==
    /\ req[r].op = "commit" /\ req[r].pc = "s3"
    /\ \/ /\ s3.mp = "open"
          /\ s3' = [s3 EXCEPT !.mp = "completed"]
          /\ Continue(r, [req[r] EXCEPT !.pc = "save", !.s = MarkCommitted(@),
                                         !.ttl = SessionTtl(req[r].s)])
       \/ /\ Reply(r, req[r], ServerError)
          /\ UNCHANGED s3
    /\ UNCHANGED <<store, nreq, abortDone, committedWith, expiry, now, direct>>

\* server.js 185-187
CommitSave(r) ==
    /\ req[r].op = "commit" /\ req[r].pc = "save"
    /\ \/ /\ store' = req[r].s
          /\ expiry' = now + req[r].ttl * 1000
          /\ committedWith' = req[r].input.parts
          /\ Reply(r, [req[r] EXCEPT !.wrote = TRUE], Ok([fileId |-> req[r].s.fileId]))
       \/ /\ Reply(r, req[r], ServerError)
          /\ UNCHANGED <<store, expiry, committedWith>>
    /\ UNCHANGED <<s3, nreq, abortDone, now, direct>>

\* -------------------------------------------- POST /sessions/:id/abort
\* server.js 196-203: lookup, AbortMultipartUpload is sent.
AbortStart(r) ==
    /\ CanStart(r)
    /\ LET s == getSession(TheUploadId)
           q == Begin(r, "abort", NoInput, s)
       IN  IF s = NoSession
           THEN Reply(r, q, Err(404, "not_found"))
           ELSE Continue(r, [q EXCEPT !.pc = "s3", !.calls = {"abortMultipart"}])
    /\ nreq' = nreq + 1
    /\ UNCHANGED <<store, s3, abortDone, committedWith, expiry, now, direct>>

\* server.js 205
MarkAbortedClearHandle(s) ==
    [s EXCEPT !.status = "aborted", !.s3Multipart = [UploadId |-> "", Key |-> ""]]

MarkAborted(s) == [s EXCEPT !.status = "aborted"]

\* server.js 199-205, 208-211: the object store drops the open multipart
\* upload, or the call throws.
AbortUpstream(r) ==
    /\ req[r].op = "abort" /\ req[r].pc = "s3"
    /\ \/ /\ s3.mp = "open"
          /\ s3' = [s3 EXCEPT !.mp = "aborted"]
          /\ Continue(r, [req[r] EXCEPT !.pc = "save", !.s = MarkAborted(@),
                                         !.ttl = SessionTtl(req[r].s)])
       \/ /\ Reply(r, req[r], ServerError)
          /\ UNCHANGED s3
    /\ UNCHANGED <<store, nreq, abortDone, committedWith, expiry, now, direct>>

\* server.js 206-207
AbortSave(r) ==
    /\ req[r].op = "abort" /\ req[r].pc = "save"
    /\ \/ /\ store' = req[r].s
          /\ expiry' = now + req[r].ttl * 1000
          /\ abortDone' = TRUE
          /\ Reply(r, [req[r] EXCEPT !.wrote = TRUE], Ok([message |-> "aborted"]))
       \/ /\ Reply(r, req[r], ServerError)
          /\ UNCHANGED <<store, expiry, abortDone>>
    /\ UNCHANGED <<s3, nreq, committedWith, now, direct>>

\* ------------------------------------------------- GET /sessions/:id
\* server.js 83-95: the stored record is read and returned.
GetSession(r) ==
    /\ CanStart(r)
    /\ LET s == getSession(TheUploadId)
           q == Begin(r, "get", NoInput, s)
       IN  IF s = NoSession
           THEN Reply(r, q, Err(404, "not_found"))
           ELSE Reply(r, q, Ok([uploadId |-> s.uploadId, status |-> s.status,
                                totalChunks |-> s.totalChunks, chunkSize |-> s.chunkSize,
                                uploadedParts |-> s.uploadedParts,
                                expiresAt |-> s.expiresAt]))
    /\ nreq' = nreq + 1
    /\ UNCHANGED <<store, s3, abortDone, committedWith, expiry, now, direct>>

\* ------------------------------------------------ protocol specification
Next ==
    \/ \E r \in Reqs : GetSession(r)
    \/ \E r \in Reqs, fileName \in FileNames, fileSize \in FileSizes,
          desiredChunkSize \in DesiredSizes, storageStrategy \in Strategies :
          CreateStart(r, fileName, fileSize, desiredChunkSize, storageStrategy)
    \/ \E r \in Reqs : CreateUpstream(r)
    \/ \E r \in Reqs : CreateSave(r)
    \/ \E r \in Reqs, param \in PartIndexParams : PresignPart(r, param)
    \/ \E r \in Reqs, part \in PartRequests : UploadStart(r, part[1], part[2])
    \/ \E r \in Reqs : UploadUpstream(r)
    \/ \E r \in Reqs : UploadSave(r)
    \/ \E r \in Reqs, body \in CommitBodies : CommitStart(r, body)
    \/ \E r \in Reqs : CommitUpstream(r)
    \/ \E r \in Reqs : CommitSave(r)
    \/ \E r \in Reqs : AbortStart(r)
    \/ \E r \in Reqs : AbortUpstream(r)
    \/ \E r \in Reqs : AbortSave(r)

Spec == Init /\ [][Next]_vars

\* --------------------------------------------- chunk-plan specification
\* One session creation per behaviour, over a wide range of file and chunk
\* sizes.
CreateOnce(r, fileName, fileSize, desiredChunkSize, storageStrategy) ==
    /\ nreq = 0
    /\ CreateStart(r, fileName, fileSize, desiredChunkSize, storageStrategy)

NextPlan ==
    \/ \E r \in Reqs, fileName \in FileNames, fileSize \in PlanFileSizes,
          desiredChunkSize \in PlanDesiredSizes, storageStrategy \in Strategies :
          CreateOnce(r, fileName, fileSize, desiredChunkSize, storageStrategy)
    \/ \E r \in Reqs : CreateUpstream(r)
    \/ \E r \in Reqs : CreateSave(r)

SpecPlan == Init /\ [][NextPlan]_vars

\* --------------------------------------------- one-chunk specification
\* The protocol on a session of one chunk, in proxy mode.
NextOne ==
    \/ \E r \in Reqs : CreateStart(r, "a.pdf", Num(1), Undefined, Str("proxy"))
    \/ \E r \in Reqs : CreateUpstream(r)
    \/ \E r \in Reqs : CreateSave(r)
    \/ \E r \in Reqs : GetSession(r)
    \/ \E r \in Reqs : UploadStart(r, "0", "hello")
    \/ \E r \in Reqs : UploadUpstream(r)
    \/ \E r \in Reqs : UploadSave(r)
    \/ \E r \in Reqs : CommitStart(r, <<[index |-> 0, checksum |-> Sha256Hex("hello")]>>)
    \/ \E r \in Reqs : CommitUpstream(r)
    \/ \E r \in Reqs : CommitSave(r)
    \/ \E r \in Reqs : AbortStart(r)
    \/ \E r \in Reqs : AbortUpstream(r)
    \/ \E r \in Reqs : AbortSave(r)

SpecOne == Init /\ [][NextOne]_vars

\* --------------------------------------------------- time specification
\* Time passes between the requests: the clock jumps to a later one of a few
\* instants around the deadline of a session created at time 0.  The instants
\* are tens of seconds apart, so no handler is in flight across a jump.
Instants ==
    {SESSION_LIFETIME - 10 * 1000, SESSION_LIFETIME + 30 * 1000, SESSION_LIFETIME + 60 * 1000}

Tick(t) ==
    /\ t > now
    /\ \A r \in Reqs : req[r].pc = "idle"
    /\ now' = t
    /\ UNCHANGED <<store, s3, req, last, nreq, abortDone, committedWith, expiry, direct>>

NextTime ==
    \/ NextOne
    \/ \E t \in Instants : Tick(t)

SpecTime == Init /\ [][NextTime]_vars

\* ---------------------------------------------- presigned specification
\* cli/uploader.js 49-53: with the URL a presign request has just returned,
\* the client PUTs the chunk of that index to the object store, which takes
\* it while the multipart upload is open and the part number is an integer.
\* The server is not involved.
DirectPut(chunk) ==
    /\ last.op = "presign" /\ last.pc = "done" /\ last.resp.code = 200
    /\ ~last.resp.body.frac
    /\ s3.mp = "open"
    /\ LET i == last.resp.body.PartNumber - 1
       IN  /\ i = 0 \/ chunk = "hello"
           /\ direct' = (i :> chunk) @@ direct
           /\ direct' # direct
    /\ UNCHANGED <<store, s3, req, last, nreq, abortDone, committedWith, now, expiry>>

NextPresigned ==
    \/ Next
    \/ \E chunk \in Buffers : DirectPut(chunk)

SpecPresigned == Init /\ [][NextPresigned]_vars

\* ================================================================ claims
\* The handler invocations the state shows: the one answered last and the
\* ones in flight.
Observed == {last} \cup {req[r] : r \in Reqs}

SeqSet(q) == {q[k] : k \in 1..Len(q)}
Indices(s) == 0..(s.totalChunks - 1)

\* The client's entry for index i: the first one of its list.
ClientHas(parts, i) == \E k \in 1..Len(parts) : parts[k].index = i
ClientChecksum(parts, i) ==
    LET k == CHOOSE k \in 1..Len(parts) :
                 parts[k].index = i /\ \A j \in 1..(k - 1) : parts[j].index # i
    IN  parts[k].checksum
MissingSet(s, parts) ==
    {i \in Indices(s) : ~ClientHas(parts, i) \/ i \notin DOMAIN s.uploadedParts}
MismatchedSet(s, parts) ==
    {i \in Indices(s) \ MissingSet(s, parts) :
        ClientChecksum(parts, i) # s.uploadedParts[i].checksum}
AllMatch(s, parts) == MissingSet(s, parts) = {} /\ MismatchedSet(s, parts) = {}
\* A commit request for an existing session that carries a parts list.
IsCommit(q) == q.op = "commit" /\ q.s # NoSession /\ q.input.parts # NoParts

\* C1: once an abort request has been answered with success, every later
\* part-upload, presign and commit request is rejected: it answers with an
\* error, sends no object-store call and does not write the session record.
C1_RejectedAfterAbort ==
    \A q \in Observed :
        (q.afterAbort /\ q.op \in {"upload", "presign", "commit"}) =>
            /\ q.pc = "done"
            /\ q.resp.code # 200
            /\ q.calls = {}
            /\ ~q.wrote

\* C2 (as claimed): commit succeeds if and only if every index has a client
\* entry and a server record with equal checksums; when it does not succeed
\* it reports exactly the missing and the mismatched indices.
C2_SucceedsIffAllMatch ==
    (last.pc = "done" /\ IsCommit(last)) =>
        /\ (last.resp.code = 200) <=> AllMatch(last.s, last.input.parts)
        /\ last.resp.code # 200 =>
              /\ last.resp.error = "parts_invalid"
              /\ SeqSet(last.resp.body.missing) = MissingSet(last.s, last.input.parts)
              /\ SeqSet(last.resp.body.mismatched) = MismatchedSet(last.s, last.input.parts)

\* C2 (amended): commit passes its cross-check and sends completeMultipart if
\* and only if every index has a client entry (the first one the list holds
\* for it) and a server record with equal checksums; it succeeds only then;
\* and when the cross-check fails the answer is parts_invalid, whose missing
\* list is exactly the indices lacking a client entry or a server record and
\* whose mismatched list is exactly the indices present on both sides whose
\* checksums differ.
C2_CrossCheckIffAllMatch ==
    \A q \in Observed :
        IsCommit(q) =>
            /\ ("completeMultipart" \in q.calls) <=> AllMatch(q.s, q.input.parts)
            /\ (q.pc = "done" /\ q.resp.code = 200) => AllMatch(q.s, q.input.parts)
            /\ ~AllMatch(q.s, q.input.parts) =>
                  /\ q.pc = "done"
                  /\ q.resp.code = 400 /\ q.resp.error = "parts_invalid"
                  /\ SeqSet(q.resp.body.missing) = MissingSet(q.s, q.input.parts)
                  /\ Len(q.resp.body.missing) = Cardinality(MissingSet(q.s, q.input.parts))
                  /\ SeqSet(q.resp.body.mismatched) = MismatchedSet(q.s, q.input.parts)
                  /\ Len(q.resp.body.mismatched)
                         = Cardinality(MismatchedSet(q.s, q.input.parts))

\* A commit was answered parts_invalid with one index missing and another
\* mismatched.
C2_Witness ==
    /\ last.op = "commit" /\ last.pc = "done"
    /\ last.resp.error = "parts_invalid"
    /\ last.resp.body.missing = <<1>>
    /\ last.resp.body.mismatched = <<0>>

\* C3: a commit whose parts are missing or mismatched fails with
\* parts_invalid, sends no completeMultipart call and leaves the stored
\* session record exactly as it was before the request.
C3_PartsInvalidChangesNothing ==
    \A q \in Observed :
        (IsCommit(q) /\ ~AllMatch(q.s, q.input.parts)) =>
            /\ q = last
            /\ q.resp.error = "parts_invalid"
            /\ "completeMultipart" \notin q.calls
            /\ ~q.wrote
            /\ store = q.s

\* A commit was answered parts_invalid because of a checksum mismatch alone,
\* on a session that has every part.
C3_Witness ==
    /\ last.op = "commit" /\ last.pc = "done"
    /\ last.resp.error = "parts_invalid"
    /\ last.resp.body.missing = <<>>
    /\ last.resp.body.mismatched # <<>>
    /\ store # NoSession /\ store.status = "uploading"
    /\ DOMAIN store.uploadedParts = Indices(store)

\* C4: the stored status only moves pending -> uploading,
\* pending/uploading -> committed and pending/uploading -> aborted; committed
\* and aborted are final.
StatusMoves ==
    {<<"pending", "uploading">>, <<"pending", "committed">>, <<"uploading", "committed">>,
     <<"pending", "aborted">>, <<"uploading", "aborted">>}
C4_StatusMonotone ==
    [][(store # NoSession /\ store' # NoSession) =>
          (store'.status = store.status \/ <<store.status, store'.status>> \in StatusMoves)]_vars

\* C5: once the stored status is committed or aborted, uploadedParts is never
\* modified again.
C5_PartsFrozenWhenFinal ==
    [][(store # NoSession /\ store.status \in {"committed", "aborted"}) =>
          store'.uploadedParts = store.uploadedParts]_vars

\* C6: no update is lost: when two overlapping part uploads for distinct
\* indices are both answered with success, the stored record holds both parts.
C6_NoLostUpdate ==
    (last.op = "upload" /\ last.pc = "done" /\ last.resp.code = 200) =>
        \A j \in last.peerOk \cup {Number(last.input.partIndex).val} :
            j \in DOMAIN store.uploadedParts

\* C7: a stored status of committed implies that every index has a record
\* whose checksum is the one the client gave for it in the commit request
\* that succeeded.
C7_CommittedPartsConfirmed ==
    (store # NoSession /\ store.status = "committed") =>
        \A i \in Indices(store) :
            /\ i \in DOMAIN store.uploadedParts
            /\ ClientHas(committedWith, i)
            /\ ClientChecksum(committedWith, i) = store.uploadedParts[i].checksum

\* A committed session of two parts whose part 0 holds the second buffer.
C7_Witness ==
    /\ store # NoSession /\ store.status = "committed"
    /\ store.totalChunks = 2
    /\ store.uploadedParts[0].checksum = Sha256Hex("world")

\* A session was created, answered with its chunk plan.
Created(q) == q.op = "create" /\ q.pc = "done" /\ q.resp.code = 200

\* C8: for every fileSize >= 0 and every desiredChunkSize, creation yields
\* 256KiB <= chunkSize <= 50MiB and totalChunks = ceil(fileSize / chunkSize).
C8_ChunkPlanInRange ==
    (Created(last) /\ last.input.fileSize.val >= 0) =>
        LET chunkSize == last.resp.body.chunkSize
            totalChunks == last.resp.body.totalChunks
        IN  /\ 256 * 1024 <= chunkSize /\ chunkSize <= 50 * 1024 * 1024
            /\ totalChunks >= 0
            /\ totalChunks * chunkSize >= last.input.fileSize.val
            /\ (totalChunks - 1) * chunkSize < last.input.fileSize.val
            /\ store.chunkSize = chunkSize /\ store.totalChunks = totalChunks

\* A creation whose desired chunk size was above the maximum and whose file
\* needs two chunks of the clamped size.
C8_Witness ==
    /\ Created(last)
    /\ last.input.fileSize = Num(50 * 1024 * 1024 + 1)
    /\ last.input.desiredChunkSize = Num(50 * 1024 * 1024 + 1)
    /\ last.resp.body.chunkSize = 50 * 1024 * 1024
    /\ last.resp.body.totalChunks = 2

\* C9: the chunk size is clamp(desired ?? base, 256KiB, 50MiB), base being
\* 16MiB from 500MiB on and 5MiB below: a supplied desiredChunkSize, 0
\* included, replaces the base for every file size.
C9_ChunkSizeIsClampedDesired ==
    Created(last) =>
        LET base == IF last.input.fileSize.val >= 500 * 1024 * 1024
                    THEN 16 * 1024 * 1024 ELSE 5 * 1024 * 1024
            wanted == IF last.input.desiredChunkSize = Undefined THEN base
                      ELSE last.input.desiredChunkSize.val
        IN  last.resp.body.chunkSize = Max2(256 * 1024, Min2(50 * 1024 * 1024, wanted))

\* C10: creation fails with a validation error whenever fileName is empty or
\* fileSize is not a non-negative number; no multipart upload is then created
\* and no session record is stored.
C10_InvalidCreateRejected ==
    \A q \in Observed :
        (/\ q.op = "create"
         /\ \/ q.input.fileName = ""
            \/ q.input.fileSize.type # "number"
            \/ q.input.fileSize.val < 0) =>
            /\ q.pc = "done"
            /\ q.resp.code = 400
            /\ "createMultipart" \notin q.calls
            /\ ~q.wrote
\* Cross-check outcome of a parts list; an upload that stores again the bytes
\* the record it read already held for its index.
PassesCrossCheck(s, body) ==
    LET checked == CheckParts(s, body)
    IN  checked.missing = <<>> /\ checked.mismatched = <<>>

IsReupload(q) ==
    /\ q.op = "upload" /\ q.pc = "done" /\ q.resp.code = 200
    /\ q.read.status = "uploading"
    /\ LET i == Number(q.input.partIndex).val
       IN  /\ i \in DOMAIN q.read.uploadedParts
           /\ q.read.uploadedParts[i].checksum = Sha256Hex(q.input.chunk)
           /\ q.read.uploadedParts[i].size = BufferLength(q.input.chunk)

\* C11: a part upload is idempotent per index.  When an upload of index i with
\* bytes b is answered with success and the record it read already held, for
\* i, the checksum and the size of b with status "uploading" (the state after
\* a first upload of i with b), the record it wrote has the same checksum and
\* size for i, the same status and the same entries for every other index as
\* the record it read, and every commit body passes the cross-check against
\* the one exactly when it passes against the other.
C11_ReuploadIdempotent ==
    IsReupload(last) =>
        LET i == Number(last.input.partIndex).val
        IN  /\ last.wrote
            /\ DOMAIN last.s.uploadedParts = DOMAIN last.read.uploadedParts
            /\ last.s.uploadedParts[i].checksum = last.read.uploadedParts[i].checksum
            /\ last.s.uploadedParts[i].size = last.read.uploadedParts[i].size
            /\ last.s.status = last.read.status
            /\ \A j \in DOMAIN last.read.uploadedParts \ {i} :
                   last.s.uploadedParts[j] = last.read.uploadedParts[j]
            /\ \A body \in CommitBodies \ {NoParts} :
                   PassesCrossCheck(last.s, body) <=> PassesCrossCheck(last.read, body)

\* A second upload of index 0 with the same bytes, while index 1 is recorded too.
C11_Witness ==
    /\ IsReupload(last)
    /\ Number(last.input.partIndex).val = 0
    /\ 1 \in DOMAIN last.read.uploadedParts
    /\ store = last.s

\* The part index is not a number of [0, totalChunks); the requests that are
\* to be rejected for a validation, strategy-mismatch or not-found reason.
OutOfRange(param, s) ==
    LET partIndex == Number(param)
    IN  partIndex.nan \/ partIndex.val < 0 \/ partIndex.val >= s.totalChunks

MustBeRejected(q) ==
    \/ /\ q.op = "create"
       /\ q.input.fileName = "" \/ q.input.fileSize.type # "number"
    \/ /\ q.op \in {"get", "presign", "upload", "commit", "abort"}
       /\ q.read = NoSession
    \/ /\ q.op \in {"presign", "upload"}
       /\ q.read # NoSession
       /\ OutOfRange(q.input.partIndex, q.read)
    \/ /\ q.op = "upload"
       /\ q.read # NoSession
       /\ q.input.chunk = NoFile
    \/ /\ q.op = "presign"
       /\ q.read # NoSession
       /\ q.read.storageStrategy # "presigned"
    \/ /\ q.op = "commit"
       /\ q.read # NoSession
       /\ q.input.parts = NoParts

\* C12: a request that is rejected for a validation, strategy-mismatch or
\* not-found reason (a creation without fileName or numeric fileSize, an
\* unknown or expired uploadId, a part index that is not a number of
\* [0, totalChunks), a part upload without a file, a presign on a session
\* that is not presigned, a commit without a parts list) is answered 400 or
\* 404 before any object-store call and without any write of the session.
C12_RejectedBeforeAnyEffect ==
    \A q \in Observed :
        MustBeRejected(q) =>
            /\ q.pc = "done"
            /\ q.resp.code \in {400, 404}
            /\ q.calls = {}
            /\ ~q.wrote
            /\ q.s = q.read

\* A part upload with index totalChunks on an existing session was rejected.
C12_Witness ==
    /\ last.op = "upload"
    /\ last.read # NoSession
    /\ Number(last.input.partIndex).val = last.read.totalChunks
    /\ last.resp.code = 400
    /\ last.calls = {}

\* The step of a presign request; a presign request for an index of
\* [0, totalChunks) on a presigned session.
PresignStep == nreq' = nreq + 1 /\ req' = req /\ last'.op = "presign"

IsPresignInRange(q) ==
    /\ q.op = "presign"
    /\ q.read # NoSession
    /\ q.read.storageStrategy = "presigned"
    /\ ~OutOfRange(q.input.partIndex, q.read)

\* C13 (as claimed): presign never mutates session state; for a presigned
\* session and an index of [0, totalChunks) every presign request succeeds and
\* leaves the session record unchanged.
C13_PresignAlwaysSucceeds ==
    [][PresignStep =>
          /\ store' = store /\ expiry' = expiry /\ s3' = s3
          /\ IsPresignInRange(last') => last'.resp.code = 200]_vars

\* C13 (amended): presign never mutates session state; for a presigned session
\* and an index of [0, totalChunks) no presign request is rejected: each one
\* succeeds or, when signing the URL throws, is answered server_error, and
\* every presign request leaves the session record, its expiry and the
\* multipart upload unchanged.
C13_PresignNeverMutates ==
    [][PresignStep =>
          /\ store' = store /\ expiry' = expiry /\ s3' = s3
          /\ ~last'.wrote
          /\ last'.s = last'.read
          /\ IsPresignInRange(last') =>
                 /\ last'.resp.code \in {200, 500}
                 /\ last'.resp.code = 200 =>
                        last'.resp.body.PartNumber
                            = Number(last'.input.partIndex).val + 1]_vars

\* The last index of a presigned session with a recorded part was presigned.
C13_Witness ==
    /\ IsPresignInRange(last)
    /\ last.resp.code = 200
    /\ Number(last.input.partIndex).val = last.read.totalChunks - 1
    /\ store = last.read
    /\ store.uploadedParts # <<>>

\* C14: expiresAt is an absolute deadline.  A lookup made at a time later than
\* the expiresAt of the session returns not-found, whatever requests have
\* saved the record again.
C14_ExpiresAtIsDeadline ==
    \A q \in Observed :
        (/\ q.op \in {"get", "presign", "upload", "commit", "abort"}
         /\ store # NoSession
         /\ q.at > store.expiresAt) =>
            q.read = NoSession

\* The commit of a client that has PUT every part through a presigned URL.
IsPresignedFlowCommit(q) ==
    /\ q.op = "commit" /\ q.pc = "done"
    /\ q.read # NoSession
    /\ q.read.storageStrategy = "presigned"
    /\ q.read.totalChunks >= 1
    /\ DOMAIN direct = Indices(q.read)
    /\ Len(q.input.parts) = q.read.totalChunks
    /\ \A i \in Indices(q.read) :
           q.input.parts[i + 1] = [index |-> i, checksum |-> Sha256Hex(direct[i])]

\* C15: the presigned flow can complete.  On a presigned session of at least
\* one chunk, a commit of a client that has obtained a URL for every index,
\* has PUT every part to the object store and sends the checksums of the
\* bytes it has PUT, one entry per index, is answered with success and the
\* session is stored with status "committed".
C15_PresignedFlowCompletes ==
    IsPresignedFlowCommit(last) =>
        /\ last.resp.code = 200
        /\ last.wrote
        /\ last.s.status = "committed"

\* The fields of a session that the creation fixes.
PlanOf(s) ==
    [uploadId |-> s.uploadId, size |-> s.size, chunkSize |-> s.chunkSize,
     totalChunks |-> s.totalChunks, storageStrategy |-> s.storageStrategy,
     s3Multipart |-> s.s3Multipart]

\* C16: the chunk plan and the strategy are fixed at creation.  The first
\* record stored is the one the creation wrote, with the plan its response
\* reports, and every later write keeps its uploadId, size, chunkSize,
\* totalChunks, storageStrategy and multipart handle; the record is never
\* removed by a handler.
C16_PlanFixedAtCreation ==
    [][/\ store # NoSession => (store' # NoSession /\ PlanOf(store') = PlanOf(store))
       /\ (store = NoSession /\ store' # NoSession) =>
              /\ last'.op = "create"
              /\ last'.resp.code = 200
              /\ last'.resp.body.uploadId = store'.uploadId
              /\ last'.resp.body.chunkSize = store'.chunkSize
              /\ last'.resp.body.totalChunks = store'.totalChunks
              /\ last'.resp.body.storageStrategy = store'.storageStrategy
              /\ store'.size = last'.input.fileSize.val
              /\ store'.s3Multipart = TheHandle]_vars

\* The record has been written again by a part upload and by an abort.
C16_Witness ==
    /\ store # NoSession
    /\ store.status = "aborted"
    /\ store.uploadedParts # <<>>
    /\ PlanOf(store) = [uploadId |-> TheUploadId, size |-> DEFAULT + 1, chunkSize |-> DEFAULT,
                        totalChunks |-> 2, storageStrategy |-> "proxy",
                        s3Multipart |-> TheHandle]

\* Every key of uploadedParts is an index of the plan.
KeysInRange(s) ==
    s # NoSession =>
        \A k \in DOMAIN s.uploadedParts : k \in Int /\ 0 <= k /\ k < s.totalChunks

C18_FinalizeListFromRecords ==
    \A q \in Observed :
        "completeMultipart" \in q.calls =>
            /\ q.op = "commit"
            /\ Len(q.sent) = q.read.totalChunks
            /\ \A i \in Indices(q.read) :
                   /\ i \in DOMAIN q.read.uploadedParts
                   /\ q.sent[i + 1] = [PartNumber |-> i + 1,
                                       ETag |-> q.read.uploadedParts[i].etag]
            /\ \A k \in 1..(Len(q.sent) - 1) :
                   q.sent[k].PartNumber < q.sent[k + 1].PartNumber

\* A commit of two parts with different bytes is waiting for the object store.
C18_Witness ==
    \E r \in Reqs :
        /\ req[r].op = "commit" /\ req[r].pc = "s3"
        /\ "completeMultipart" \in req[r].calls
        /\ Len(req[r].sent) = 2
        /\ req[r].sent[1].ETag # req[r].sent[2].ETag

\* C19: the status "committed" implies a finalized object.  Whenever the
\* stored record, or a handler's copy of it, has status "committed", a
\* completeMultipart call for the session's multipart handle has returned
\* success at the object store.
C19_CommittedImpliesFinalized ==
    /\ store.status = "committed" => s3.mp = "completed"
    /\ \A q \in Observed : q.s.status = "committed" => s3.mp = "completed"
    /\ (last.op = "commit" /\ last.resp.code = 200) => s3.mp = "completed"

\* A commit has stored "committed" and answered with success.
C19_Witness ==
    /\ store.status = "committed"
    /\ last.op = "commit" /\ last.resp.code = 200
    /\ s3.mp = "completed"
    /\ store.fileId = TheKey

\* The steps in which a commit sends completeMultipart and in which the
\* object store answers it with success.
IssuesFinalize(r) ==
    "completeMultipart" \notin req[r].calls /\ "completeMultipart" \in req'[r].calls

FinalizeSucceeds(r) ==
    req[r].op = "commit" /\ req[r].pc = "s3" /\ req'[r].pc = "save"

\* C20: the object is finalized at most once.  No commit issues
\* completeMultipart while the stored status of the session is "committed" or
\* "aborted", and no completeMultipart call succeeds once one has succeeded.
C20_FinalizedAtMostOnce ==
    [][\A r \in Reqs :
          /\ IssuesFinalize(r) => store.status \notin {"committed", "aborted"}
          /\ FinalizeSucceeds(r) => s3.mp # "completed"]_vars

====
